---- MODULE Spec2Model ----
(***************************************************************************)
(* Model of the capture-extraction and stream-merging engine of            *)
(* cli-agent-logger: src/src/extract_logs.py (extract_flows_to_json,       *)
(* extract_from_both_locations) with its callers in claude_session.py and  *)
(* mitm_logger.py.                                                         *)
(*                                                                         *)
(* Text is modelled as token sequences: a response body is a sequence of   *)
(* lines (the result of split('\n')), a line is a sequence of tokens.      *)
(* The tokens are "data:", " " (white space) and opaque pieces of text     *)
(* that hold neither white space at their ends nor the text "data:".       *)
(* Python values are tagged records (PyNone, PyStr, PyInt, PyDict, ...).   *)
(***************************************************************************)
EXTENDS Integers, Sequences, FiniteSets, TLC

VARIABLES
    mitm_file,       \* extract_flows_to_json argument: path of the capture file
    output_file,     \* extract_flows_to_json argument: explicit output path or NoPath
    pc,              \* position inside extract_flows_to_json
    idx,             \* number of flows flow_reader.stream() has yielded so far
    flows_original,  \* the list flows_original
    flows_merged,    \* the list flows_merged
    ret,             \* return value of extract_flows_to_json: "none", "True", "False"
    raised,          \* the exception caught at line 143 or 176 ("" when none)
    files,           \* the file system: existing path -> document
    clock,           \* wall clock, in whole seconds
    driver           \* the caller of extract_flows_to_json (batch / session / logger)

vars == <<mitm_file, output_file, pc, idx, flows_original, flows_merged,
          ret, raised, files, clock, driver>>

----------------------------------------------------------------------------
(* Bounds of the model *)

MaxLines == 4

MaxFlows == 2

MaxClock == 2

MaxRuns == 2

----------------------------------------------------------------------------
(* Python values *)

PyNone == [t |-> "None"]

PyStr(s) == [t |-> "str", s |-> s]

PyInt(n) == [t |-> "int", n |-> n]

PyBool(b) == [t |-> "bool", b |-> b]

PyDict(d) == [t |-> "dict", d |-> d]

PyList(l) == [t |-> "list", l |-> l]

\* A body text, kept as its lines.
PyText(lines) == [t |-> "text", lines |-> lines]

EmptyDict == PyDict(<<>>)

IsDict(v) == v.t = "dict"

\* Python truth value of v
Truthy(v) ==
    CASE v.t = "None" -> FALSE
      [] v.t = "str"  -> v.s # ""
      [] v.t = "int"  -> v.n # 0
      [] v.t = "bool" -> v.b
      [] v.t = "dict" -> DOMAIN v.d # {}
      [] v.t = "list" -> v.l # <<>>
      [] v.t = "text" -> v.lines # <<>>

\* d.get(key, default) on a dict d
DictGet(v, key, default) == IF key \in DOMAIN v.d THEN v.d[key] ELSE default

\* d[key] = value on a dict d
DictSet(v, key, value) ==
    PyDict([k \in DOMAIN v.d \cup {key} |-> IF k = key THEN value ELSE v.d[k]])

\* A computation that ended normally with value v, or raised exception e.
Ok(v) == [exc |-> "", val |-> v]

Raise(e) == [exc |-> e, val |-> PyNone]

----------------------------------------------------------------------------
(* Texts that occur on the wire.  The payload that follows "data:" is one *)
(* token; json_loads gives the value json.loads returns for it.           *)

T_start == "{\"type\":\"message_start\",\"message\":{\"id\":\"X\",\"role\":\"assistant\",\"model\":\"m\",\"usage\":{\"input_tokens\":3,\"output_tokens\":1}}}"

T_start_empty == "{\"type\":\"message_start\",\"message\":{}}"

T_start_nousage == "{\"type\":\"message_start\",\"message\":{\"id\":\"Y\"}}"

T_block_start == "{\"type\":\"content_block_start\",\"index\":0}"

T_hel == "{\"type\":\"content_block_delta\",\"delta\":{\"text\":\"Hel\"}}"

T_lo == "{\"type\":\"content_block_delta\",\"delta\":{\"text\":\"lo\"}}"

T_delta_int == "{\"type\":\"content_block_delta\",\"delta\":{\"text\":5}}"

T_md12 == "{\"type\":\"message_delta\",\"delta\":{\"stop_reason\":\"max_tokens\"},\"usage\":{\"output_tokens\":12}}"

T_md7 == "{\"type\":\"message_delta\",\"usage\":{\"output_tokens\":7}}"

T_ping == "{\"type\":\"ping\"}"

T_bad == "{\"type\":\"content_block_del"

T_num == "5"

T_done == "[DONE]"

T_event == "event: ping"

R_json == "{\"model\":\"m\"}"

R_text == "hello"

\* json.loads(text) for a text of one token
json_loads_token(tok) ==
    CASE tok = T_start ->
           Ok(PyDict([type |-> PyStr("message_start"),
                      message |-> PyDict([id |-> PyStr("X"), role |-> PyStr("assistant"),
                                          model |-> PyStr("m"),
                                          usage |-> PyDict([input_tokens |-> PyInt(3),
                                                            output_tokens |-> PyInt(1)])])]))
      [] tok = T_start_empty ->
           Ok(PyDict([type |-> PyStr("message_start"), message |-> EmptyDict]))
      [] tok = T_start_nousage ->
           Ok(PyDict([type |-> PyStr("message_start"),
                      message |-> PyDict([id |-> PyStr("Y")])]))
      [] tok = T_block_start ->
           Ok(PyDict([type |-> PyStr("content_block_start"), index |-> PyInt(0)]))
      [] tok = T_hel ->
           Ok(PyDict([type |-> PyStr("content_block_delta"),
                      delta |-> PyDict([text |-> PyStr("Hel")])]))
      [] tok = T_lo ->
           Ok(PyDict([type |-> PyStr("content_block_delta"),
                      delta |-> PyDict([text |-> PyStr("lo")])]))
      [] tok = T_delta_int ->
           Ok(PyDict([type |-> PyStr("content_block_delta"),
                      delta |-> PyDict([text |-> PyInt(5)])]))
      [] tok = T_md12 ->
           Ok(PyDict([type |-> PyStr("message_delta"),
                      delta |-> PyDict([stop_reason |-> PyStr("max_tokens")]),
                      usage |-> PyDict([output_tokens |-> PyInt(12)])]))
      [] tok = T_md7 ->
           Ok(PyDict([type |-> PyStr("message_delta"),
                      usage |-> PyDict([output_tokens |-> PyInt(7)])]))
      [] tok = T_ping -> Ok(PyDict([type |-> PyStr("ping")]))
      [] tok = T_num -> Ok(PyInt(5))
      [] tok = R_json -> Ok(PyDict([model |-> PyStr("m")]))
      [] OTHER -> Raise("JSONDecodeError")

\* json.loads(text): white space around the value is allowed, anything else
\* after the value ("Extra data") or no value at all is a JSONDecodeError.
json_loads(text) ==
    IF Len(text) = 1 THEN json_loads_token(text[1]) ELSE Raise("JSONDecodeError")

----------------------------------------------------------------------------
(* str methods on token sequences *)

IsSpace(tok) == tok = " "

RECURSIVE lstrip(_)
lstrip(text) ==
    IF text # <<>> /\ IsSpace(Head(text)) THEN lstrip(Tail(text)) ELSE text

RECURSIVE rstrip(_)
rstrip(text) ==
    IF text # <<>> /\ IsSpace(text[Len(text)])
    THEN rstrip(SubSeq(text, 1, Len(text) - 1))
    ELSE text

\* text.strip()
strip(text) == rstrip(lstrip(text))

\* line.startswith('data:')
startswith_data(line) == line # <<>> /\ line[1] = "data:"

\* line[5:] of a line that starts with "data:"
after_prefix(line) == Tail(line)

\* 'data:' in body
contains_data(body) ==
    \E i \in 1..Len(body) : \E j \in 1..Len(body[i]) : body[i][j] = "data:"

\* 'data: ' in body
contains_data_space(body) ==
    \E i \in 1..Len(body) : \E j \in 1..(Len(body[i]) - 1) :
        body[i][j] = "data:" /\ IsSpace(body[i][j + 1])

IsBlank(line) == strip(line) = <<>>

RECURSIVE lstrip_lines(_)
lstrip_lines(body) ==
    IF body # <<>> /\ IsBlank(Head(body)) THEN lstrip_lines(Tail(body))
    ELSE IF body # <<>> THEN <<lstrip(Head(body))>> \o Tail(body)
    ELSE body

RECURSIVE rstrip_lines(_)
rstrip_lines(body) ==
    IF body # <<>> /\ IsBlank(body[Len(body)])
    THEN rstrip_lines(SubSeq(body, 1, Len(body) - 1))
    ELSE IF body # <<>>
    THEN SubSeq(body, 1, Len(body) - 1) \o <<rstrip(body[Len(body)])>>
    ELSE body

\* response_body.strip().split('\n'): the text without the white space and
\* line ends at its two ends, as lines; the empty text splits into one empty line.
split_lines(body) ==
    LET stripped == rstrip_lines(lstrip_lines(body))
    IN  IF stripped = <<>> THEN << <<>> >> ELSE stripped

----------------------------------------------------------------------------
(* The merge pass over one streaming body: extract_logs.py lines 58-107 *)

\* merged_content = "" and full_response = None (lines 60-61)
MergeInit == [full_response |-> PyNone, merged_content |-> "", exc |-> ""]

\* CaughtInLoop without the JSON error
CaughtKeyErrorOnly == {"KeyError"}

\* The exceptions the handler of line 89 catches
CaughtInLoop == {"JSONDecodeError", "KeyError"}

\* full_response = chunk.get('message', {})  (line 75)
on_message_start(st, chunk) ==
    [st EXCEPT !.full_response = DictGet(chunk, "message", EmptyDict)]

\* append_delta with the operands exchanged
append_delta_front(merged_content, delta_content) == delta_content \o merged_content

\* merged_content += delta_content  (line 80)
append_delta(merged_content, delta_content) == merged_content \o delta_content

\* delta_content = chunk.get('delta', {}).get('text', ''); merged_content += ...
\* (lines 79-80).  A delta that is no dict has no .get (AttributeError); str += a
\* value that is no str is a TypeError.
on_content_block_delta(st, chunk) ==
    LET delta == DictGet(chunk, "delta", EmptyDict)
    IN  IF ~IsDict(delta) THEN [st EXCEPT !.exc = "AttributeError"]
        ELSE LET delta_content == DictGet(delta, "text", PyStr(""))
             IN  IF delta_content.t # "str" THEN [st EXCEPT !.exc = "TypeError"]
                 ELSE [st EXCEPT !.merged_content =
                                     append_delta(st.merged_content, delta_content.s)]

\* patch_usage that replaces the usage object instead of one item of it
patch_usage_replace(full_response, final_output_tokens) ==
    DictSet(full_response, "usage", PyDict([output_tokens |-> final_output_tokens]))

\* full_response['usage']['output_tokens'] = final_output_tokens  (line 87)
patch_usage(full_response, final_output_tokens) ==
    DictSet(full_response, "usage",
            DictSet(full_response.d["usage"], "output_tokens", final_output_tokens))

\* lines 83-87.  'output_tokens' in delta_usage is a TypeError when delta_usage
\* is None or a number; so is the item assignment when full_response['usage']
\* is no dict.
on_message_delta(st, chunk) ==
    LET delta_usage == DictGet(chunk, "usage", EmptyDict)
    IN  IF ~IsDict(delta_usage) THEN [st EXCEPT !.exc = "TypeError"]
        ELSE IF "output_tokens" \notin DOMAIN delta_usage.d THEN st
        ELSE IF ~(Truthy(st.full_response) /\ "usage" \in DOMAIN st.full_response.d)
             THEN st
        ELSE IF ~IsDict(st.full_response.d["usage"])
             THEN [st EXCEPT !.exc = "TypeError"]
        ELSE [st EXCEPT !.full_response =
                            patch_usage(st.full_response, delta_usage.d["output_tokens"])]

\* dispatch_chunk in which content_block_start empties the text merged so far
dispatch_chunk_block_start_clears(st, chunk) ==
    IF ~IsDict(chunk) THEN [st EXCEPT !.exc = "AttributeError"]
    ELSE LET type == DictGet(chunk, "type", PyNone)
         IN  CASE type = PyStr("message_start") -> on_message_start(st, chunk)
               [] type = PyStr("content_block_start") -> [st EXCEPT !.merged_content = ""]
               [] type = PyStr("content_block_delta") -> on_content_block_delta(st, chunk)
               [] type = PyStr("message_delta") -> on_message_delta(st, chunk)
               [] OTHER -> st

\* The dispatch on chunk.get('type') of lines 74-87; a chunk that is no dict
\* has no .get (AttributeError).
dispatch_chunk(st, chunk) ==
    IF ~IsDict(chunk) THEN [st EXCEPT !.exc = "AttributeError"]
    ELSE LET type == DictGet(chunk, "type", PyNone)
         IN  CASE type = PyStr("message_start") -> on_message_start(st, chunk)
               [] type = PyStr("content_block_start") -> st
               [] type = PyStr("content_block_delta") -> on_content_block_delta(st, chunk)
               [] type = PyStr("message_delta") -> on_message_delta(st, chunk)
               [] OTHER -> st

\* merge_line in which the [DONE] line starts the merge state afresh
merge_line_done_resets(st, raw_line) ==
    LET line == strip(raw_line)
    IN  IF ~startswith_data(line) THEN st
        ELSE LET data_str == strip(after_prefix(line))
             IN  IF data_str = <<T_done>> THEN MergeInit
                 ELSE LET parsed == json_loads(data_str)
                      IN  IF parsed.exc # ""
                          THEN IF parsed.exc \in CaughtInLoop THEN st
                               ELSE [st EXCEPT !.exc = parsed.exc]
                          ELSE LET after == dispatch_chunk(st, parsed.val)
                               IN  IF after.exc \in CaughtInLoop THEN st ELSE after

\* One iteration of the loop of line 63 on one line of the body (lines 64-90).
\* An exception of CaughtInLoop ends the iteration with the state as it is
\* (continue); any other one leaves the loop with exc set.
merge_line(st, raw_line) ==
    LET line == strip(raw_line)
    IN  IF ~startswith_data(line) THEN st
        ELSE LET data_str == strip(after_prefix(line))
             IN  IF data_str = <<T_done>> THEN st
                 ELSE LET parsed == json_loads(data_str)
                      IN  IF parsed.exc # ""
                          THEN IF parsed.exc \in CaughtInLoop THEN st
                               ELSE [st EXCEPT !.exc = parsed.exc]
                          ELSE LET after == dispatch_chunk(st, parsed.val)
                               IN  IF after.exc \in CaughtInLoop THEN st ELSE after

\* The loop of line 63 over lines[1..n]; it stops at the first exception that
\* escapes.
RECURSIVE merge_loop(_, _)
merge_loop(lines, n) ==
    IF n = 0 THEN MergeInit
    ELSE LET st == merge_loop(lines, n - 1)
         IN  IF st.exc # "" THEN st ELSE merge_line(st, lines[n])

\* merge_succeeded with "is not None" in place of the truth value
merge_succeeded_not_none(st) == st.full_response # PyNone /\ st.merged_content # ""

\* if full_response and merged_content  (line 92)
merge_succeeded(st) == Truthy(st.full_response) /\ st.merged_content # ""

\* build_merged that takes the stop reason from the message of message_start
build_merged_stop_of_message(st) ==
    LET fr == st.full_response
    IN  PyDict([id          |-> DictGet(fr, "id", PyNone),
                type        |-> PyStr("message"),
                role        |-> DictGet(fr, "role", PyStr("assistant")),
                content     |-> PyList(<<PyDict([type |-> PyStr("text"),
                                                 text |-> PyStr(st.merged_content)])>>),
                model       |-> DictGet(fr, "model", PyNone),
                stop_reason |-> DictGet(fr, "stop_reason", PyNone),
                usage       |-> DictGet(fr, "usage", EmptyDict)])

\* The merged response built at lines 94-105.  full_response.get raises
\* AttributeError when full_response is no dict.
build_merged(st) ==
    LET fr == st.full_response
    IN  PyDict([id          |-> DictGet(fr, "id", PyNone),
                type        |-> PyStr("message"),
                role        |-> DictGet(fr, "role", PyStr("assistant")),
                content     |-> PyList(<<PyDict([type |-> PyStr("text"),
                                                 text |-> PyStr(st.merged_content)])>>),
                model       |-> DictGet(fr, "model", PyNone),
                stop_reason |-> PyStr("end_turn"),
                usage       |-> DictGet(fr, "usage", EmptyDict)])

----------------------------------------------------------------------------
(* One captured exchange (a mitmproxy HTTPFlow) and its two records:      *)
(* extract_logs.py lines 40-141                                            *)

NoResponse == PyNone

\* An HTTPFlow: request content and start time; response None or status,
\* headers and content (its lines; <<>> is the empty content).
Flow(req_content, ts, response) ==
    [request |-> [content |-> req_content, timestamp_start |-> ts], response |-> response]

Response(status_code, headers, content) ==
    [t |-> "response", status_code |-> status_code, headers |-> headers,
     content |-> content]

\* len(flow.response.content): the tokens of every line and the line ends between
text_size(body) ==
    LET RECURSIVE total(_)
        total(n) == IF n = 0 THEN 0 ELSE total(n - 1) + Len(body[n])
    IN  IF body = <<>> THEN 0 ELSE total(Len(body)) + (Len(body) - 1)

\* message.get_text() if message.content else None  (lines 42-43)
get_text(content) == IF content # <<>> THEN PyText(content) ELSE PyNone

\* datetime.fromtimestamp(ts).isoformat()
isoformat(ts) == [t |-> "isotime", ts |-> ts]

\* original_response_of that keeps no body text of a streaming response
original_response_of_unstreamed(response) ==
    LET response_body == IF contains_data(response.content) THEN PyNone
                         ELSE get_text(response.content)
    IN  PyDict([status_code   |-> PyInt(response.status_code),
                headers       |-> PyDict(response.headers),
                response_body |-> response_body,
                size          |-> PyInt(text_size(response.content)),
                is_streaming  |-> PyBool(contains_data_space(response.content))])

\* lines 46-52
original_response_of(response) ==
    LET response_body == get_text(response.content)
    IN  PyDict([status_code   |-> PyInt(response.status_code),
                headers       |-> PyDict(response.headers),
                response_body |-> response_body,
                size          |-> PyInt(text_size(response.content)),
                is_streaming  |-> PyBool(contains_data_space(response.content))])

\* if response_body and 'data:' in response_body and merge_streaming  (line 58)
should_merge(content, merge_streaming) ==
    content # <<>> /\ contains_data(content) /\ merge_streaming

\* lines 55-107: the merged response of a response, or the exception that
\* escapes the merge.
merged_response_of(response, merge_streaming) ==
    LET original_response == original_response_of(response)
    IN  IF ~should_merge(response.content, merge_streaming) THEN Ok(original_response)
        ELSE LET lines == split_lines(response.content)
                 st == merge_loop(lines, Len(lines))
             IN  IF st.exc # "" THEN Raise(st.exc)
                 ELSE IF ~merge_succeeded(st) THEN Ok(original_response)
                 ELSE IF ~IsDict(st.full_response) THEN Raise("AttributeError")
                 ELSE Ok(build_merged(st))

\* lines 110-115: json.loads(request_body), or the text itself when it is no JSON
parse_request_body(req_content) ==
    IF req_content = <<>> THEN PyNone
    ELSE LET parsed == json_loads(req_content)
         IN  IF parsed.exc = "" THEN parsed.val ELSE PyText(<<req_content>>)

\* lines 118-122
request_data_of(flow) ==
    [timestamp    |-> isoformat(flow.request.timestamp_start),
     request_body |-> parse_request_body(flow.request.content)]

\* original_record without the body text
original_record_no_body(flow) ==
    LET original_response == original_response_of(flow.response)
        rd == request_data_of(flow)
    IN  PyDict([timestamp    |-> rd.timestamp,
                request_body |-> rd.request_body,
                response     |-> PyDict([status_code   |-> original_response.d["status_code"],
                                         response_body |-> PyNone,
                                         type          |-> PyStr("original")])])

\* lines 125-132: the record appended to flows_original
original_record(flow) ==
    LET original_response == original_response_of(flow.response)
        rd == request_data_of(flow)
    IN  PyDict([timestamp    |-> rd.timestamp,
                request_body |-> rd.request_body,
                response     |-> PyDict([status_code   |-> original_response.d["status_code"],
                                         response_body |-> original_response.d["response_body"],
                                         type          |-> PyStr("original")])])

\* {**merged_response, 'type': 'merged'}  (lines 137-140)
tag_merged(merged_response) == DictSet(merged_response, "type", PyStr("merged"))

\* merged_record that holds the request text as it is, not parsed
merged_record_raw_request(flow, merged_response) ==
    LET rd == request_data_of(flow)
    IN  PyDict([timestamp    |-> rd.timestamp,
                request_body |-> get_text(<<flow.request.content>>),
                response     |-> tag_merged(merged_response)])

\* lines 135-141: the record appended to flows_merged
merged_record(flow, merged_response) ==
    LET rd == request_data_of(flow)
    IN  PyDict([timestamp    |-> rd.timestamp,
                request_body |-> rd.request_body,
                response     |-> tag_merged(merged_response)])

\* has_response with the test on the response replaced by a test on its content
has_response_content(flow) ==
    flow.response # NoResponse /\ flow.response.content # <<>>

\* flow.response is not None  (line 40)
has_response(flow) == flow.response # NoResponse

----------------------------------------------------------------------------
(* Paths and files.  A path is a sequence of pieces of text; a file is a   *)
(* capture (the flows mitmproxy's FlowReader yields, and whether the       *)
(* framing after them is unparseable) or a JSON document.                  *)

NoPath == <<>>

LocalDir == "cli-agent-logs/"

\* Path.home() / ".claude" / "projects" / dir_name
GlobalDir == "~/.claude/projects/-cwd/"

MitmFile(name) == <<LocalDir, name, ".mitm">>

CaptureFile(flows, corrupt, mtime) ==
    [kind |-> "mitm", flows |-> flows, corrupt |-> corrupt, mtime |-> mtime]

\* json.dump(records, f, ...): the document holds the records in list order
JsonFile(records) == [kind |-> "json", doc |-> records]

\* A file that open(path, 'w') has just created or cut to length zero and into
\* which nothing was written yet
TruncatedFile == [kind |-> "partial", doc |-> <<>>]

\* os.path.exists(path)
exists(path) == path \in DOMAIN files

\* the file system with path holding content
write_file(fs, path, content) ==
    [q \in DOMAIN fs \cup {path} |-> IF q = path THEN content ELSE fs[q]]

\* A directory
DirEntry == [kind |-> "dir"]

\* Path(path).parent: the pieces of path up to its file name.  LocalDir and
\* GlobalDir are directories in one piece; in any other path the file name
\* starts at the piece that begins with "/".
dirname(path) ==
    IF path[1] \in {LocalDir, GlobalDir} THEN <<path[1]>>
    ELSE SubSeq(path, 1, (CHOOSE k \in 1..(Len(path) - 1) :
                             /\ path[k + 1] = "/a"
                             /\ \A j \in 1..k : path[j] # "/a"))

\* dir.mkdir(parents=True, exist_ok=True)
mkdir(fs, dir) == IF dir \in DOMAIN fs THEN fs ELSE write_file(fs, dir, DirEntry)

\* The file system fs with the directories of its files
with_dirs(fs) == [q \in DOMAIN fs \cup {dirname(f) : f \in DOMAIN fs} |->
                     IF q \in DOMAIN fs THEN fs[q] ELSE DirEntry]

\* path.replace('.mitm', ''): every occurrence is removed  (lines 152, 215)
replace_mitm(path) == SelectSeq(path, LAMBDA piece : piece # ".mitm")

\* original_file = output_file or f"{base_name}_original.json"  (line 155)
original_file_of(mitm, out) ==
    IF out # NoPath THEN out ELSE replace_mitm(mitm) \o <<"_original.json">>

\* merged_file = f"{base_name}_merged.json"  (line 156)
merged_file_of(mitm) == replace_mitm(mitm) \o <<"_merged.json">>

----------------------------------------------------------------------------
(* extract_flows_to_json(mitm_file, output_file), merge_streaming = True *)

merge_streaming == TRUE

\* The flows of the capture file being read
CaptureFlows == files[mitm_file].flows

\* return value: leave the function
Return(value, exception) ==
    /\ ret' = value
    /\ raised' = exception
    /\ pc' = "done"

\* lines 24-33: the directory of an explicit output path is made, then the
\* existence check, then the two empty lists
ExtractBegin ==
    /\ pc = "begin"
    /\ files' = IF output_file # NoPath THEN mkdir(files, dirname(output_file)) ELSE files
    /\ IF ~exists(mitm_file)
       THEN /\ Return("False", "")
            /\ UNCHANGED <<idx, flows_original, flows_merged>>
       ELSE /\ pc' = "read"
            /\ idx' = 0
            /\ flows_original' = <<>>
            /\ flows_merged' = <<>>
            /\ UNCHANGED <<ret, raised>>
    /\ UNCHANGED <<mitm_file, output_file, clock, driver>>

\* ReadFlow without lines 60-61: the merge of a response goes on from the
\* merged_content and full_response the merge of the response before it left
ReadFlow_keeps_locals ==
    /\ pc = "read"
    /\ idx < Len(CaptureFlows)
    /\ LET flow == CaptureFlows[idx + 1]
           before == SelectSeq(SubSeq(CaptureFlows, 1, idx),
                               LAMBDA f : has_response(f)
                                          /\ should_merge(f.response.content, merge_streaming))
           left == IF before = <<>> THEN MergeInit
                   ELSE LET lines == split_lines(before[Len(before)].response.content)
                        IN  merge_loop(lines, Len(lines))
           merge_on(response) ==
               LET lines == split_lines(response.content)
                   RECURSIVE loop(_)
                   loop(n) == IF n = 0 THEN left
                              ELSE IF loop(n - 1).exc # "" THEN loop(n - 1)
                              ELSE merge_line(loop(n - 1), lines[n])
                   st == loop(Len(lines))
               IN  IF ~should_merge(response.content, merge_streaming)
                   THEN Ok(original_response_of(response))
                   ELSE IF st.exc # "" THEN Raise(st.exc)
                   ELSE IF ~merge_succeeded(st) THEN Ok(original_response_of(response))
                   ELSE IF ~IsDict(st.full_response) THEN Raise("AttributeError")
                   ELSE Ok(build_merged(st))
       IN  IF ~has_response(flow)
           THEN /\ idx' = idx + 1
                /\ UNCHANGED <<flows_original, flows_merged, ret, raised, pc>>
           ELSE LET merged == merge_on(flow.response)
                IN  IF merged.exc # ""
                    THEN /\ Return("False", merged.exc)
                         /\ UNCHANGED <<idx, flows_original, flows_merged>>
                    ELSE /\ idx' = idx + 1
                         /\ flows_original' = Append(flows_original, original_record(flow))
                         /\ flows_merged' = Append(flows_merged, merged_record(flow, merged.val))
                         /\ UNCHANGED <<ret, raised, pc>>
    /\ UNCHANGED <<mitm_file, output_file, files, clock, driver>>

\* lines 39-141: one iteration of "for flow in flow_reader.stream()".  A flow
\* without a response is skipped; an exception that escapes the merge is caught
\* at line 143 and the function returns False.
ReadFlow ==
    /\ pc = "read"
    /\ idx < Len(CaptureFlows)
    /\ LET flow == CaptureFlows[idx + 1]
       IN  IF ~has_response(flow)
           THEN /\ idx' = idx + 1
                /\ UNCHANGED <<flows_original, flows_merged, ret, raised, pc>>
           ELSE LET merged == merged_response_of(flow.response, merge_streaming)
                IN  IF merged.exc # ""
                    THEN /\ Return("False", merged.exc)
                         /\ UNCHANGED <<idx, flows_original, flows_merged>>
                    ELSE /\ idx' = idx + 1
                         /\ flows_original' = Append(flows_original, original_record(flow))
                         /\ flows_merged' = Append(flows_merged, merged_record(flow, merged.val))
                         /\ UNCHANGED <<ret, raised, pc>>
    /\ UNCHANGED <<mitm_file, output_file, files, clock, driver>>

\* flow_reader.stream() raises FlowReadException where the framing cannot be
\* parsed; line 143 catches it and the function returns False.
ReadCorrupt ==
    /\ pc = "read"
    /\ idx = Len(CaptureFlows)
    /\ files[mitm_file].corrupt
    /\ Return("False", "FlowReadException")
    /\ UNCHANGED <<idx, flows_original, flows_merged>>
    /\ UNCHANGED <<mitm_file, output_file, files, clock, driver>>

\* ReadEnd without the test of line 147
ReadEnd_writes_empty ==
    /\ pc = "read"
    /\ idx = Len(CaptureFlows)
    /\ ~files[mitm_file].corrupt
    /\ pc' = "write_original"
    /\ UNCHANGED <<ret, raised>>
    /\ UNCHANGED <<idx, flows_original, flows_merged>>
    /\ UNCHANGED <<mitm_file, output_file, files, clock, driver>>

\* The loop ends; lines 147-149: no flows, return False; lines 152-160: the
\* output paths, and their directories are made
ReadEnd ==
    /\ pc = "read"
    /\ idx = Len(CaptureFlows)
    /\ ~files[mitm_file].corrupt
    /\ IF flows_original = <<>>
       THEN /\ Return("False", "")
            /\ UNCHANGED files
       ELSE /\ files' = mkdir(mkdir(files, dirname(original_file_of(mitm_file, output_file))),
                              dirname(merged_file_of(mitm_file)))
            /\ pc' = "write_original"
            /\ UNCHANGED <<ret, raised>>
    /\ UNCHANGED <<idx, flows_original, flows_merged>>
    /\ UNCHANGED <<mitm_file, output_file, clock, driver>>

\* open(original_file, 'w') (line 164): the file is created, or cut to length
\* zero, under its final name
OpenOriginal ==
    /\ pc = "write_original"
    /\ files' = write_file(files, original_file_of(mitm_file, output_file), TruncatedFile)
    /\ pc' = "dump_original"
    /\ UNCHANGED <<idx, flows_original, flows_merged, ret, raised>>
    /\ UNCHANGED <<mitm_file, output_file, clock, driver>>

\* json.dump(flows_original, f, ...) and the close of the with block (line 165)
WriteOriginal ==
    /\ pc = "dump_original"
    /\ files' = write_file(files, original_file_of(mitm_file, output_file),
                           JsonFile(flows_original))
    /\ pc' = "write_merged"
    /\ UNCHANGED <<idx, flows_original, flows_merged, ret, raised>>
    /\ UNCHANGED <<mitm_file, output_file, clock, driver>>

\* open(merged_file, 'w') (line 168)
OpenMerged ==
    /\ pc = "write_merged"
    /\ files' = write_file(files, merged_file_of(mitm_file), TruncatedFile)
    /\ pc' = "dump_merged"
    /\ UNCHANGED <<idx, flows_original, flows_merged, ret, raised>>
    /\ UNCHANGED <<mitm_file, output_file, clock, driver>>

\* json.dump(flows_merged, f, ...), the close, and return True (lines 169-174)
WriteMerged ==
    /\ pc = "dump_merged"
    /\ files' = write_file(files, merged_file_of(mitm_file), JsonFile(flows_merged))
    /\ Return("True", "")
    /\ UNCHANGED <<idx, flows_original, flows_merged>>
    /\ UNCHANGED <<mitm_file, output_file, clock, driver>>

NextExtract ==
    \/ ExtractBegin
    \/ ReadFlow
    \/ ReadCorrupt
    \/ ReadEnd
    \/ OpenOriginal
    \/ WriteOriginal
    \/ OpenMerged
    \/ WriteMerged

----------------------------------------------------------------------------
(* The inputs the specifications draw from *)

SeqsUpTo(S, n) == UNION {[1..k -> S] : k \in 0..n}

DataLine(payload) == <<"data:", " ", payload>>

\* The lines of the bodies of SpecMerge
MergeLines ==
    {DataLine(T_start), DataLine(T_start_empty), DataLine(T_start_nousage),
     DataLine(T_hel), DataLine(T_lo), DataLine(T_md12), DataLine(T_md7),
     DataLine(T_bad), DataLine(T_done), DataLine(T_ping), DataLine(T_num),
     <<T_event>>}

EventStream == [content_type |-> PyStr("text/event-stream")]

AppJson == [content_type |-> PyStr("application/json")]

NoDriver == [kind |-> "none"]

\* A call of extract_flows_to_json(mitm, out) about to start on file system fs
CallStarts(mitm, out, fs) ==
    /\ mitm_file = mitm
    /\ output_file = out
    /\ files = with_dirs(fs)
    /\ pc = "begin"
    /\ idx = 0
    /\ flows_original = <<>>
    /\ flows_merged = <<>>
    /\ ret = "none"
    /\ raised = ""

\* SpecMerge: one extraction of a capture that holds at most one exchange, whose
\* response body is any sequence of at most MaxLines lines of MergeLines.
InitMerge ==
    /\ \E flows \in {<<>>} \cup
                    {<<Flow(<<R_json>>, 1, Response(200, EventStream, body))>> :
                        body \in SeqsUpTo(MergeLines, MaxLines)} :
         \E corrupt \in (IF flows = <<>> THEN BOOLEAN ELSE {FALSE}) :
           CallStarts(MitmFile("a"), NoPath,
                      (MitmFile("a") :> CaptureFile(flows, corrupt, 1)))
    /\ clock = 0
    /\ driver = NoDriver

SpecMerge == InitMerge /\ [][NextExtract]_vars

\* The lines of the bodies of SpecFrame: the events that build a message, and
\* the lines the merge passes over (content_block_start, a kind the merge does
\* not know, a line without the data: prefix, an empty line), and a payload
\* that is no JSON object
FrameLines ==
    {DataLine(T_start), DataLine(T_hel), DataLine(T_lo), DataLine(T_md12),
     DataLine(T_block_start), DataLine(T_ping), <<T_event>>, <<>>, DataLine(T_num)}

\* SpecFrame: one extraction of a capture that holds at most one exchange, whose
\* response body is any sequence of at most MaxLines lines of FrameLines.
InitFrame ==
    /\ \E flows \in {<<>>} \cup
                    {<<Flow(<<R_json>>, 1, Response(200, EventStream, body))>> :
                        body \in SeqsUpTo(FrameLines, MaxLines)} :
         \E corrupt \in (IF flows = <<>> THEN BOOLEAN ELSE {FALSE}) :
           CallStarts(MitmFile("a"), NoPath,
                      (MitmFile("a") :> CaptureFile(flows, corrupt, 1)))
    /\ clock = 0
    /\ driver = NoDriver

SpecFrame == InitFrame /\ [][NextExtract]_vars


T_plain == "{\"ok\":true}"

B_stream == <<DataLine(T_start), DataLine(T_hel), DataLine(T_lo), DataLine(T_md12)>>

B_nostart == <<DataLine(T_hel), DataLine(T_done)>>

B_badline == <<DataLine(T_start), DataLine(T_hel), DataLine(T_bad), DataLine(T_lo)>>

B_num == <<DataLine(T_hel), DataLine(T_num)>>

B_delta_int == <<DataLine(T_start), DataLine(T_delta_int)>>

B_nospace == << <<"data:", T_start>>, <<"data:", T_hel>> >>

B_midline == << <<T_event, " ", "data:", " ", T_plain>> >>

\* The exchanges of the captures of SpecExtract: without a response, with a
\* plain, an empty and a streamed body, and streamed bodies with each kind of
\* line that is no usable event.
ExtractFlows ==
    {Flow(<<>>, 1, NoResponse),
     Flow(<<R_json>>, 2, Response(200, AppJson, << <<T_plain>> >>)),
     Flow(<<R_text>>, 3, Response(204, AppJson, <<>>)),
     Flow(<<R_json>>, 4, Response(200, EventStream, B_stream)),
     Flow(<<R_json>>, 5, Response(200, EventStream, B_nostart)),
     Flow(<<R_json>>, 6, Response(200, EventStream, B_badline)),
     Flow(<<R_json>>, 7, Response(200, EventStream, B_num)),
     Flow(<<R_json>>, 8, Response(200, EventStream, B_delta_int)),
     Flow(<<R_json>>, 9, Response(200, EventStream, B_nospace)),
     Flow(<<R_json>>, 10, Response(500, AppJson, B_midline))}

GlobalOriginal == <<GlobalDir, "cli_agent_requests_original.json">>

\* The capture a.mitm in the directory runs.mitm
CaptureInMitmDir == <<"runs", ".mitm", "/a", ".mitm">>

\* The capture paths of SpecExtract
ExtractCaptures == {MitmFile("a"), CaptureInMitmDir}

\* SpecExtract: one call of extract_flows_to_json on a capture of at most
\* MaxFlows exchanges of ExtractFlows, corrupt after them or not, with or
\* without an explicit output path; the capture file may also be missing.
InitExtract ==
    /\ \E mitm \in ExtractCaptures, out \in {NoPath, GlobalOriginal} :
         \/ CallStarts(mitm, out, <<>>)
         \/ \E flows \in SeqsUpTo(ExtractFlows, MaxFlows), corrupt \in BOOLEAN :
              CallStarts(mitm, out, (mitm :> CaptureFile(flows, corrupt, 1)))
    /\ clock = 0
    /\ driver = NoDriver

SpecExtract == InitExtract /\ [][NextExtract]_vars

----------------------------------------------------------------------------
(* The callers of extract_flows_to_json: extract_from_both_locations       *)
(* (extract_logs.py 181-234), ClaudeSession.extract_logs                   *)
(* (claude_session.py 191-243) and MitmLogger._sync_logs_to_global         *)
(* (mitm_logger.py 161-196).  Each copies the merged JSON of a successful  *)
(* extraction into the global directory under a name that holds the time   *)
(* of the copy, to the second.                                             *)

DefaultCapture == MitmFile("cli_agent_requests")

\* local_logs_dir.glob("*.mitm")
glob_mitm(fs) ==
    {q \in DOMAIN fs : Len(q) = 3 /\ q[1] = LocalDir /\ q[3] = ".mitm"}

Digits == <<"0", "1", "2", "3", "4", "5", "6", "7", "8", "9">>

\* datetime.now().strftime("%Y%m%d_%H%M%S") at second t of the model's day
strftime(t) == "20250101_00000" \o Digits[t + 1]

\* global_logs_dir / f"cli_agent_requests_{timestamp}.json"
global_json_at(t) == <<GlobalDir, "cli_agent_requests_", strftime(t), ".json">>

\* shutil.copy2(src, dst): dst is created or overwritten
copy2(fs, src, dst) == write_file(fs, dst, fs[src])

\* lines 211-222 (and the same lines of the two other callers): when the
\* extraction succeeded and the merged JSON exists, copy it at time t
copy_merged_to_global(fs, mitm, success, t) ==
    IF success = "True" /\ merged_file_of(mitm) \in DOMAIN fs
    THEN copy2(fs, merged_file_of(mitm), global_json_at(t))
    ELSE fs

\* No caller is active; exit_code is the exit status of the last run of the
\* extraction command (None when the last run was no command)
Idle(runs) ==
    [kind |-> "idle", pc |-> "idle", todo |-> {}, extracted_count |-> 0,
     result |-> "none", exit_code |-> PyNone, runs |-> runs]

\* main() (lines 236-254) drops the value its callee returns and returns None;
\* the interpreter then exits with status 0
main_exit_code(result) == PyInt(0)

\* extract_flows_to_json(mitm, out) is called
Call(mitm, out) ==
    /\ mitm_file' = mitm
    /\ output_file' = out
    /\ pc' = "begin"
    /\ idx' = 0
    /\ flows_original' = <<>>
    /\ flows_merged' = <<>>
    /\ ret' = "none"
    /\ raised' = ""

CallUnchanged == UNCHANGED <<mitm_file, output_file, pc, idx, flows_original, flows_merged, ret, raised>>

\* The clock advances by one second
Tick ==
    /\ clock < MaxClock
    /\ clock' = clock + 1
    /\ CallUnchanged
    /\ UNCHANGED <<files, driver>>

\* extract_from_both_locations, lines 186-194
BatchStart ==
    /\ driver.kind = "idle"
    /\ driver.runs < MaxRuns
    /\ driver' = [kind |-> "batch", pc |-> "loop",
                  todo |-> (IF glob_mitm(files) # {} THEN glob_mitm(files)
                            ELSE {DefaultCapture}),
                  extracted_count |-> 0, result |-> "none", exit_code |-> PyNone,
                  runs |-> driver.runs + 1]
    /\ CallUnchanged
    /\ UNCHANGED <<files, clock>>

\* lines 196-209: the next file of the list (glob gives no order); a file that
\* does not exist is passed over
BatchCall ==
    /\ driver.kind = "batch"
    /\ driver.pc = "loop"
    /\ \E f \in driver.todo :
         IF f \in DOMAIN files
         THEN /\ Call(f, NoPath)
              /\ files' = mkdir(files, <<GlobalDir>>)
              /\ driver' = [driver EXCEPT !.pc = "call", !.todo = @ \ {f}]
         ELSE /\ driver' = [driver EXCEPT !.todo = @ \ {f}]
              /\ CallUnchanged
              /\ UNCHANGED files
    /\ UNCHANGED clock

\* BatchAfter that leaves the loop when the extraction failed
BatchAfter_stops_on_failure ==
    /\ driver.kind = "batch"
    /\ driver.pc = "call"
    /\ pc = "done"
    /\ files' = copy_merged_to_global(files, mitm_file, ret, clock)
    /\ driver' = [driver EXCEPT !.pc = "loop",
                                !.todo = IF ret = "True" THEN @ ELSE {},
                                !.extracted_count = IF ret = "True" THEN @ + 1 ELSE @]
    /\ pc' = "idle"
    /\ UNCHANGED <<mitm_file, output_file, idx, flows_original, flows_merged, ret, raised, clock>>

\* lines 211-228
BatchAfter ==
    /\ driver.kind = "batch"
    /\ driver.pc = "call"
    /\ pc = "done"
    /\ files' = copy_merged_to_global(files, mitm_file, ret, clock)
    /\ driver' = [driver EXCEPT !.pc = "loop",
                                !.extracted_count = IF ret = "True" THEN @ + 1 ELSE @]
    /\ pc' = "idle"
    /\ UNCHANGED <<mitm_file, output_file, idx, flows_original, flows_merged, ret, raised, clock>>

\* lines 230-234, and the return of main (lines 244-245, 250)
BatchEnd ==
    /\ driver.kind = "batch"
    /\ driver.pc = "loop"
    /\ driver.todo = {}
    /\ LET result == IF driver.extracted_count = 0 THEN "False" ELSE "True"
       IN  driver' = [Idle(driver.runs) EXCEPT
                        !.result = result,
                        !.exit_code = main_exit_code(result),
                        !.extracted_count = driver.extracted_count]
    /\ CallUnchanged
    /\ UNCHANGED <<files, clock>>

\* latest_of with min in place of max
oldest_of(fs, paths) == {q \in paths : \A r \in paths : fs[q].mtime <= fs[r].mtime}

\* max(mitm_files, key=st_mtime)  (claude_session.py line 206)
latest_of(fs, paths) == {q \in paths : \A r \in paths : fs[r].mtime <= fs[q].mtime}

\* ClaudeSession.extract_logs, lines 196-222: the latest capture, one second
\* of sleep, then the extraction with the original JSON in the global directory
SessionCall ==
    /\ driver.kind = "idle"
    /\ driver.runs < MaxRuns
    /\ clock < MaxClock
    /\ IF glob_mitm(files) = {} /\ DefaultCapture \notin DOMAIN files
       THEN /\ driver' = [Idle(driver.runs + 1) EXCEPT !.result = "None"]
            /\ CallUnchanged
            /\ UNCHANGED <<clock, files>>
       ELSE /\ \E latest_mitm \in (IF glob_mitm(files) = {} THEN {DefaultCapture}
                                   ELSE latest_of(files, glob_mitm(files))) :
                 Call(latest_mitm, GlobalOriginal)
            /\ clock' = clock + 1
            /\ files' = mkdir(files, <<GlobalDir>>)
            /\ driver' = [Idle(driver.runs + 1) EXCEPT !.kind = "session", !.pc = "call"]

\* claude_session.py lines 223-243
SessionAfter ==
    /\ driver.kind = "session"
    /\ driver.pc = "call"
    /\ pc = "done"
    /\ files' = copy_merged_to_global(files, mitm_file, ret, clock)
    /\ driver' = [Idle(driver.runs) EXCEPT !.result = "None"]
    /\ pc' = "idle"
    /\ UNCHANGED <<mitm_file, output_file, idx, flows_original, flows_merged, ret, raised, clock>>

\* MitmLogger._sync_logs_to_global, lines 168-177 and 192-193: the global
\* directory is made whether or not there is a capture
SyncCall ==
    /\ driver.kind = "idle"
    /\ driver.runs < MaxRuns
    /\ files' = mkdir(files, <<GlobalDir>>)
    /\ IF DefaultCapture \in DOMAIN files
       THEN /\ Call(DefaultCapture, NoPath)
            /\ driver' = [Idle(driver.runs + 1) EXCEPT !.kind = "sync", !.pc = "call"]
       ELSE /\ driver' = [Idle(driver.runs + 1) EXCEPT !.result = "None"]
            /\ CallUnchanged
    /\ UNCHANGED clock

\* mitm_logger.py lines 179-191
SyncAfter ==
    /\ driver.kind = "sync"
    /\ driver.pc = "call"
    /\ pc = "done"
    /\ files' = copy_merged_to_global(files, mitm_file, ret, clock)
    /\ driver' = [Idle(driver.runs) EXCEPT !.result = "None"]
    /\ pc' = "idle"
    /\ UNCHANGED <<mitm_file, output_file, idx, flows_original, flows_merged, ret, raised, clock>>

\* The paths the command line names: a capture, or one that does not exist
MainCaptures == {MitmFile("a"), MitmFile("b"), MitmFile("missing")}

\* The -o option: absent, or a path in the local directory
ExplicitOutput == <<LocalDir, "out", ".json">>

\* main with a capture path: extract_flows_to_json(args.mitm_file, args.output)
\* (lines 246-247)
MainCall ==
    /\ driver.kind = "idle"
    /\ driver.runs < MaxRuns
    /\ \E mitm \in MainCaptures, out \in {NoPath, ExplicitOutput} : Call(mitm, out)
    /\ driver' = [Idle(driver.runs + 1) EXCEPT !.kind = "main", !.pc = "call"]
    /\ UNCHANGED <<files, clock>>

\* main returns after the call of line 247
MainAfter ==
    /\ driver.kind = "main"
    /\ driver.pc = "call"
    /\ pc = "done"
    /\ driver' = [Idle(driver.runs) EXCEPT !.result = ret, !.exit_code = main_exit_code(ret)]
    /\ pc' = "idle"
    /\ UNCHANGED <<mitm_file, output_file, idx, flows_original, flows_merged, ret, raised,
                   files, clock>>

Next ==
    \/ NextExtract
    \/ Tick
    \/ BatchStart
    \/ BatchCall
    \/ BatchAfter
    \/ BatchEnd
    \/ MainCall
    \/ MainAfter
    \/ SessionCall
    \/ SessionAfter
    \/ SyncCall
    \/ SyncAfter

F_unanswered == Flow(<<R_json>>, 1, NoResponse)

F_plain == Flow(<<R_json>>, 2, Response(200, AppJson, << <<T_plain>> >>))

F_stream == Flow(<<R_json>>, 4, Response(200, EventStream, B_stream))

F_num == Flow(<<R_json>>, 7, Response(200, EventStream, B_num))

\* The local log directory at the start: each of a.mitm, b.mitm and
\* cli_agent_requests.mitm is missing or holds one of a few captures.
LocalDirs ==
    LET choice(path, contents) == {<<>>} \cup {(path :> c) : c \in contents}
    IN  {fa @@ fb @@ fd :
            fa \in choice(MitmFile("a"), {CaptureFile(<<F_plain>>, FALSE, m) : m \in 1..2}
                                         \cup {CaptureFile(<<>>, FALSE, 1),
                                               CaptureFile(<<F_unanswered>>, FALSE, 1)}),
            fb \in choice(MitmFile("b"), {CaptureFile(<<F_stream>>, FALSE, 2),
                                          CaptureFile(<<F_plain>>, TRUE, 2),
                                          CaptureFile(<<F_num>>, FALSE, 2)}),
            fd \in choice(DefaultCapture, {CaptureFile(<<F_stream, F_plain>>, FALSE, m) :
                                              m \in {1, 3}})}

Init ==
    /\ files \in {mkdir(mkdir(fs, <<LocalDir>>), <<GlobalDir>>) : fs \in LocalDirs}
    /\ mitm_file = NoPath
    /\ output_file = NoPath
    /\ pc = "idle"
    /\ idx = 0
    /\ flows_original = <<>>
    /\ flows_merged = <<>>
    /\ ret = "none"
    /\ raised = ""
    /\ clock = 0
    /\ driver = Idle(0)

Spec == Init /\ [][Next]_vars

-----------------------------------------------------------------------------
(* ClaudeSession.run (claude_session.py): start the logger, point the
   environment at it, run the Claude CLI, then clean up and extract.  The
   session's state is carried in driver. *)

\* os.environ: a function from the names of the variables that are set
EmptyEnv == [v \in {} |-> <<>>]

UpstreamUrl == <<"https://api.moonshot.cn", "/", "anthropic">>

\* The environments a session is started in
Environments ==
    {[v \in names |-> IF v = "PATH" THEN <<"/usr/bin">> ELSE UpstreamUrl] :
        names \in SUBSET {"PATH", "ANTHROPIC_BASE_URL"}}

\* The base_url of a session: with a path and without one
BaseUrls == {UpstreamUrl, <<"https://api.anthropic.com">>}

\* parse_url, lines 43-48: target is scheme://netloc, path has no leading "/"
parse_url(url) == [target |-> url[1], path |-> IF Len(url) >= 3 THEN url[3] ELSE ""]

\* lines 142-144
local_url(port, path) ==
    IF path # "" THEN <<"http://localhost:", port, "/", path>>
    ELSE <<"http://localhost:", port>>

\* find_available_port(8000), lines 29-41: the first free port of the hundred
\* from 8000, or None
AvailablePorts == {"8000", "8001", "None"}

\* No launch of the Claude CLI
NoLaunch == [launched |-> FALSE, url |-> <<>>, logger |-> "unset"]

\* ClaudeSession.__init__, lines 21-27, in the environment env.  env_before,
\* cli, cleanup_done and extract_logs_done record what has happened; the
\* attribute logger_process does not exist until a logger is started.
Session(env, url) ==
    [kind |-> "run", pc |-> "start_logger", base_url |-> url, port |-> "8000",
     environ |-> env, original_env |-> EmptyEnv, logger_process |-> "unset",
     logger_proc |-> "unset", success |-> "none", raising |-> "",
     env_before |-> env, cli |-> NoLaunch,
     cleanup_done |-> FALSE, extract_logs_done |-> FALSE]

\* run, lines 249-252, and start_logger, lines 50-138: mkdir may raise, which
\* leaves run through its finally clause; with no free port, or when Popen
\* raises, the result is None; otherwise it is the started process
StartLogger ==
    /\ driver.kind = "run"
    /\ driver.pc = "start_logger"
    /\ \/ driver' = [driver EXCEPT !.pc = "cleanup", !.raising = "OSError"]
       \/ \E available_port \in AvailablePorts :
             IF available_port = "None"
             THEN driver' = [driver EXCEPT !.pc = "setup_environment", !.logger_proc = "None"]
             ELSE \/ driver' = [driver EXCEPT !.pc = "setup_environment",
                                              !.port = available_port,
                                              !.logger_process = "running",
                                              !.logger_proc = "process"]
                  \/ driver' = [driver EXCEPT !.pc = "setup_environment",
                                              !.port = available_port,
                                              !.logger_proc = "None"]
    /\ CallUnchanged
    /\ UNCHANGED <<files, clock>>

\* run, line 255, and setup_environment, lines 140-148: logger_proc is not
\* looked at
SetupEnvironment ==
    /\ driver.kind = "run"
    /\ driver.pc = "setup_environment"
    /\ driver' = [driver EXCEPT
                    !.pc = "run_claude_cli",
                    !.original_env = driver.environ,
                    !.environ = [v \in DOMAIN driver.environ \cup {"ANTHROPIC_BASE_URL"} |->
                                    IF v = "ANTHROPIC_BASE_URL"
                                    THEN local_url(driver.port, parse_url(driver.base_url).path)
                                    ELSE driver.environ[v]]]
    /\ CallUnchanged
    /\ UNCHANGED <<files, clock>>

\* The Claude CLI is started in the environment of the session
Launch == [launched |-> TRUE, url |-> driver.environ["ANTHROPIC_BASE_URL"],
           logger |-> driver.logger_process]

\* run, lines 258-260, and run_claude_cli, lines 150-164: the CLI ends well,
\* ends with an error, is not found, or is interrupted from the keyboard
RunClaudeCli ==
    /\ driver.kind = "run"
    /\ driver.pc = "run_claude_cli"
    /\ \/ driver' = [driver EXCEPT !.pc = "cleanup", !.cli = Launch, !.success = "True"]
       \/ driver' = [driver EXCEPT !.pc = "cleanup", !.cli = Launch, !.success = "False"]
       \/ driver' = [driver EXCEPT !.pc = "cleanup", !.success = "False"]
       \/ driver' = [driver EXCEPT !.pc = "cleanup", !.cli = Launch,
                                   !.raising = "KeyboardInterrupt"]
    /\ CallUnchanged
    /\ UNCHANGED <<files, clock>>

\* cleanup, lines 169-171: the saved environment replaces the environment,
\* if the saved environment is not empty
restore_env(environ, original_env) ==
    IF original_env # EmptyEnv THEN original_env ELSE environ

\* run, line 264, and cleanup, lines 166-189: a logger that was started is
\* terminated, killed after the timeout, or killed by name
Cleanup ==
    /\ driver.kind = "run"
    /\ driver.pc = "cleanup"
    /\ \E stopped \in (IF driver.logger_process = "running"
                       THEN {"terminated", "killed", "pkilled"}
                       ELSE {driver.logger_process}) :
          driver' = [driver EXCEPT
                        !.pc = "extract_logs",
                        !.environ = restore_env(driver.environ, driver.original_env),
                        !.logger_process = stopped,
                        !.cleanup_done = TRUE]
    /\ CallUnchanged
    /\ UNCHANGED <<files, clock>>

\* run, line 265, and extract_logs, lines 191-222
ExtractLogs ==
    /\ driver.kind = "run"
    /\ driver.pc = "extract_logs"
    /\ clock < MaxClock
    /\ IF glob_mitm(files) = {} /\ DefaultCapture \notin DOMAIN files
       THEN /\ driver' = [driver EXCEPT !.pc = "returned", !.extract_logs_done = TRUE]
            /\ CallUnchanged
            /\ UNCHANGED <<clock, files>>
       ELSE /\ \E latest_mitm \in (IF glob_mitm(files) = {} THEN {DefaultCapture}
                                   ELSE latest_of(files, glob_mitm(files))) :
                 Call(latest_mitm, GlobalOriginal)
            /\ clock' = clock + 1
            /\ files' = mkdir(files, <<GlobalDir>>)
            /\ driver' = [driver EXCEPT !.pc = "call"]

\* extract_logs, lines 223-243; then run returns success or lets the
\* exception go on
ExtractLogsAfter ==
    /\ driver.kind = "run"
    /\ driver.pc = "call"
    /\ pc = "done"
    /\ files' = copy_merged_to_global(files, mitm_file, ret, clock)
    /\ driver' = [driver EXCEPT !.pc = "returned", !.extract_logs_done = TRUE]
    /\ pc' = "idle"
    /\ UNCHANGED <<mitm_file, output_file, idx, flows_original, flows_merged, ret, raised, clock>>

NextRun ==
    \/ NextExtract
    \/ StartLogger
    \/ SetupEnvironment
    \/ RunClaudeCli
    \/ Cleanup
    \/ ExtractLogs
    \/ ExtractLogsAfter

\* The log directory when the session ends: no capture, the capture of the
\* logger, or an unreadable capture
RunDirs ==
    {<<>>,
     (DefaultCapture :> CaptureFile(<<F_stream, F_plain>>, FALSE, 1)),
     (DefaultCapture :> CaptureFile(<<F_unanswered>>, FALSE, 1)),
     (MitmFile("b") :> CaptureFile(<<F_plain>>, TRUE, 2))}

InitRun ==
    /\ files \in {mkdir(fs, <<LocalDir>>) : fs \in RunDirs}
    /\ mitm_file = NoPath
    /\ output_file = NoPath
    /\ pc = "idle"
    /\ idx = 0
    /\ flows_original = <<>>
    /\ flows_merged = <<>>
    /\ ret = "none"
    /\ raised = ""
    /\ clock = 0
    /\ driver \in {Session(env, url) : env \in Environments, url \in BaseUrls}

SpecRun == InitRun /\ [][NextRun]_vars

----------------------------------------------------------------------------
(* What the claims speak of *)

\* The exchanges of flows that have a response, in order
WithResponse(flows) == SelectSeq(flows, LAMBDA f : f.response # NoResponse)

\* The exchanges the reader has yielded so far
FlowsRead == SubSeq(CaptureFlows, 1, idx)

\* The call is past the existence check of the capture file
Reading == pc \in {"read", "write_original", "dump_original", "write_merged", "dump_merged"} \/ (pc = "done" /\ exists(mitm_file))

OriginalPath == original_file_of(mitm_file, output_file)

MergedPath == merged_file_of(mitm_file)

Timestamp(record) == record.d["timestamp"]

ResponseOf(record) == record.d["response"]

----------------------------------------------------------------------------
(* C1: no record for an exchange without a response; both arrays hold one  *)
(* record per exchange with a response, in the lists while the capture is  *)
(* read and in the two documents once the extraction has succeeded.        *)
C1_CountInvariant ==
    /\ Reading =>
         LET answered == WithResponse(FlowsRead)
         IN  /\ Len(flows_original) = Len(answered)
             /\ Len(flows_merged) = Len(answered)
             /\ \A i \in 1..Len(answered) :
                  /\ Timestamp(flows_original[i]) = isoformat(answered[i].request.timestamp_start)
                  /\ Timestamp(flows_merged[i]) = isoformat(answered[i].request.timestamp_start)
    /\ ret = "True" =>
         /\ idx = Len(CaptureFlows)
         /\ exists(OriginalPath) /\ exists(MergedPath)
         /\ files[OriginalPath] = JsonFile(flows_original)
         /\ files[MergedPath] = JsonFile(flows_merged)
         /\ Len(files[OriginalPath].doc) = Len(WithResponse(CaptureFlows))
         /\ Len(files[MergedPath].doc) = Len(WithResponse(CaptureFlows))

\* An extraction succeeded on a capture that holds an exchange without a
\* response next to one with a response.
C1_Witness ==
    /\ ret = "True"
    /\ Len(WithResponse(CaptureFlows)) >= 1
    /\ Len(WithResponse(CaptureFlows)) < Len(CaptureFlows)

----------------------------------------------------------------------------
(* The events of a stream body, as the Stream Decoder of the specification *)
(* defines them: a line that starts with data:, whose payload is not       *)
(* [DONE] and parses as a JSON object, is one event.                       *)

EventOf(raw_line) ==
    LET line == strip(raw_line)
    IN  IF ~startswith_data(line) \/ strip(Tail(line)) = <<T_done>> THEN PyNone
        ELSE LET parsed == json_loads(strip(Tail(line)))
             IN  IF parsed.exc = "" /\ IsDict(parsed.val) THEN parsed.val ELSE PyNone

IsEvent(raw_line, kind) ==
    /\ IsDict(EventOf(raw_line))
    /\ "type" \in DOMAIN EventOf(raw_line).d
    /\ EventOf(raw_line).d["type"] = PyStr(kind)

\* The text a content_block_delta event carries ("" for any other line)
DeltaText(raw_line) ==
    IF /\ IsEvent(raw_line, "content_block_delta")
       /\ "delta" \in DOMAIN EventOf(raw_line).d
       /\ IsDict(EventOf(raw_line).d["delta"])
       /\ "text" \in DOMAIN EventOf(raw_line).d["delta"].d
       /\ EventOf(raw_line).d["delta"].d["text"].t = "str"
    THEN EventOf(raw_line).d["delta"].d["text"].s
    ELSE ""

\* The delta texts of a body, concatenated in stream order
RECURSIVE DeltaConcat(_)
DeltaConcat(body) ==
    IF body = <<>> THEN "" ELSE DeltaText(Head(body)) \o DeltaConcat(Tail(body))

\* The response body of the exchange behind the i-th record
BodyOfRecord(i) == WithResponse(FlowsRead)[i].response.content

\* The response of a merged record is a reconstructed message
IsMergedMessage(response) == "content" \in DOMAIN response.d

TextBlock(text) == PyList(<<PyDict([type |-> PyStr("text"), text |-> PyStr(text)])>>)

----------------------------------------------------------------------------
(* C2: the text of the single content block of every merged message is the *)
(* concatenation of the texts of the content_block_delta events of its     *)
(* body in stream order; the stream message_start(id X), "Hel", "lo",      *)
(* message_delta(output_tokens 12) gives id X, "Hello", 12 and end_turn.   *)
C2_DeltaOrder ==
    pc = "done" =>
        \A i \in 1..Len(flows_merged) :
            LET response == ResponseOf(flows_merged[i])
            IN  /\ IsMergedMessage(response) =>
                     response.d["content"] = TextBlock(DeltaConcat(BodyOfRecord(i)))
                /\ BodyOfRecord(i) = B_stream =>
                     /\ IsMergedMessage(response)
                     /\ response.d["id"] = PyStr("X")
                     /\ response.d["content"] = TextBlock("Hello")
                     /\ response.d["usage"].d["output_tokens"] = PyInt(12)
                     /\ response.d["stop_reason"] = PyStr("end_turn")

\* The example stream was extracted and merged.
C2_Witness ==
    /\ ret = "True"
    /\ Len(flows_merged) = 1
    /\ BodyOfRecord(1) = B_stream
    /\ ResponseOf(flows_merged[1]).d["content"] = TextBlock("Hello")

----------------------------------------------------------------------------
\* Some line of the body is a message_start event
HasMessageStart(body) == \E k \in 1..Len(body) : IsEvent(body[k], "message_start")

\* The message object of the last message_start event of the body: what
\* fullResponse holds at the end of the stream (None without such an event)
RECURSIVE LastStartMessage(_)
LastStartMessage(body) ==
    IF body = <<>> THEN PyNone
    ELSE IF IsEvent(body[Len(body)], "message_start")
         THEN (IF "message" \in DOMAIN EventOf(body[Len(body)]).d
               THEN EventOf(body[Len(body)]).d["message"] ELSE EmptyDict)
         ELSE LastStartMessage(SubSeq(body, 1, Len(body) - 1))

\* The response of a merged record is the original response of exchange flow,
\* unmerged: status, headers, body text, size and streaming flag as captured
IsUnmergedResponse(response, flow) ==
    /\ DOMAIN response.d =
         {"status_code", "headers", "response_body", "size", "is_streaming", "type"}
    /\ response.d["status_code"] = PyInt(flow.response.status_code)
    /\ response.d["headers"] = PyDict(flow.response.headers)
    /\ response.d["response_body"] =
         (IF flow.response.content = <<>> THEN PyNone ELSE PyText(flow.response.content))
    /\ response.d["type"] = PyStr("merged")

(* C3 as claimed: for a streaming body the merged record carries a        *)
(* reconstructed message exactly when a message_start event was seen and  *)
(* the accumulated delta text is non-empty, and the original response     *)
(* otherwise.                                                             *)
C3_MergedIffStartSeen ==
    \A i \in 1..Len(flows_merged) :
        contains_data(BodyOfRecord(i)) =>
            /\ IsMergedMessage(ResponseOf(flows_merged[i])) <=>
                 (HasMessageStart(BodyOfRecord(i)) /\ DeltaConcat(BodyOfRecord(i)) # "")
            /\ ~IsMergedMessage(ResponseOf(flows_merged[i])) =>
                 IsUnmergedResponse(ResponseOf(flows_merged[i]), WithResponse(FlowsRead)[i])

(* C3, amended: for a streaming body the merged record carries a          *)
(* reconstructed message exactly when the message object of the last      *)
(* message_start event is non-empty and the accumulated delta text is     *)
(* non-empty; in every other case it carries the original, unmerged       *)
(* response.                                                              *)
C3_MergedIffMessageNonEmpty ==
    pc = "done" =>
        \A i \in 1..Len(flows_merged) :
            contains_data(BodyOfRecord(i)) =>
                /\ IsMergedMessage(ResponseOf(flows_merged[i])) <=>
                     (Truthy(LastStartMessage(BodyOfRecord(i))) /\ DeltaConcat(BodyOfRecord(i)) # "")
                /\ IsMergedMessage(ResponseOf(flows_merged[i])) =>
                     /\ ResponseOf(flows_merged[i]).d["content"] # TextBlock("")
                     /\ ResponseOf(flows_merged[i]).d["type"] = PyStr("merged")
                /\ ~IsMergedMessage(ResponseOf(flows_merged[i])) =>
                     IsUnmergedResponse(ResponseOf(flows_merged[i]), WithResponse(FlowsRead)[i])

\* A record was emitted for a stream with a message_start event and delta text
\* whose last message_start carried an empty message: it holds the original
\* response.
C3_Witness ==
    /\ ret = "True"
    /\ Len(flows_merged) = 1
    /\ HasMessageStart(BodyOfRecord(1))
    /\ DeltaConcat(BodyOfRecord(1)) # ""
    /\ ~Truthy(LastStartMessage(BodyOfRecord(1)))
    /\ IsUnmergedResponse(ResponseOf(flows_merged[1]), WithResponse(FlowsRead)[1])

----------------------------------------------------------------------------
\* The call has returned from a capture file that exists
Returned == pc = "done" /\ exists(mitm_file)

(* C4: a data: line whose payload is no usable event is recovered inside   *)
(* the merge loop: on a capture whose framing is sound the extraction      *)
(* ends without an exception and with a record for every exchange that has *)
(* a response.                                                             *)
C4_LineFaultsRecovered ==
    (Returned /\ ~files[mitm_file].corrupt) =>
        /\ raised = ""
        /\ Len(flows_original) = Len(WithResponse(CaptureFlows))
        /\ Len(flows_merged) = Len(WithResponse(CaptureFlows))

(* C5: when the framing becomes unparseable after k exchanges, the records *)
(* of the exchanges read before are written to both output files.          *)
C5_CorruptKeepsRead ==
    (Returned /\ raised = "FlowReadException" /\ Len(flows_original) >= 1) =>
        /\ exists(OriginalPath) /\ exists(MergedPath)
        /\ files[OriginalPath] = JsonFile(flows_original)
        /\ files[MergedPath] = JsonFile(flows_merged)

\* Two responses have the same fields and, type aside, the same values
SameExceptType(a, b) ==
    /\ DOMAIN a.d = DOMAIN b.d
    /\ \A k \in DOMAIN a.d \ {"type"} : a.d[k] = b.d[k]

\* The exchange the reader was at when an exception ended the extraction
FlowAtFault == CaptureFlows[idx + 1]

(* C6: for a body that contains data: and has no message_start event, the  *)
(* merged record is the original record (the type tag aside) and no        *)
(* exception is raised.                                                    *)
C6_NoStartIdentical ==
    /\ \A i \in 1..Len(flows_merged) :
         (contains_data(BodyOfRecord(i)) /\ ~HasMessageStart(BodyOfRecord(i))) =>
             /\ Timestamp(flows_merged[i]) = Timestamp(flows_original[i])
             /\ flows_merged[i].d["request_body"] = flows_original[i].d["request_body"]
             /\ SameExceptType(ResponseOf(flows_merged[i]), ResponseOf(flows_original[i]))
    /\ (Returned /\ raised \in {"AttributeError", "TypeError"}) =>
         HasMessageStart(FlowAtFault.response.content)

(* C7 as claimed: for a non-streaming response the response of the merged  *)
(* record has the fields of the response of the original record, with the  *)
(* same values in all but type.                                            *)
C7_NonStreamingSameFields ==
    \A i \in 1..Len(flows_merged) :
        ~contains_data(BodyOfRecord(i)) =>
            SameExceptType(ResponseOf(flows_merged[i]), ResponseOf(flows_original[i]))

(* C7, amended: for a response whose body does not contain data:, every    *)
(* field of the response of the original record other than type is in the  *)
(* response of the merged record with the same value; the merged one       *)
(* carries type "merged" and, in addition, the captured headers, size and  *)
(* is_streaming.                                                           *)
C7_NonStreamingOriginalFieldsKept ==
    \A i \in 1..Len(flows_merged) :
        ~contains_data(BodyOfRecord(i)) =>
            LET original == ResponseOf(flows_original[i])
                merged == ResponseOf(flows_merged[i])
            IN  /\ DOMAIN original.d = {"status_code", "response_body", "type"}
                /\ DOMAIN merged.d = DOMAIN original.d \cup {"headers", "size", "is_streaming"}
                /\ \A k \in DOMAIN original.d \ {"type"} : merged.d[k] = original.d[k]
                /\ original.d["type"] = PyStr("original")
                /\ merged.d["type"] = PyStr("merged")
                /\ IsUnmergedResponse(merged, WithResponse(FlowsRead)[i])

\* A record pair was written for a response with a body without data:
C7_Witness ==
    /\ ret = "True"
    /\ \E i \in 1..Len(flows_merged) :
         /\ BodyOfRecord(i) # <<>>
         /\ ~contains_data(BodyOfRecord(i))
         /\ files[MergedPath].doc[i] = flows_merged[i]

----------------------------------------------------------------------------
\* A data: line whose payload json.loads cannot parse
IsUnparseable(raw_line) ==
    /\ startswith_data(strip(raw_line))
    /\ strip(Tail(strip(raw_line))) # <<T_done>>
    /\ json_loads(strip(Tail(strip(raw_line)))).exc = "JSONDecodeError"

IsDelta(raw_line) == IsEvent(raw_line, "content_block_delta")

\* body without its j-th line
RemoveAt(body, j) == SubSeq(body, 1, j - 1) \o SubSeq(body, j + 1, Len(body))

\* The lines of body that are unparseable data: lines between two delta events
BadBetweenDeltas(body) ==
    {j \in 2..(Len(body) - 1) :
        IsUnparseable(body[j]) /\ IsDelta(body[j - 1]) /\ IsDelta(body[j + 1])}

\* The merge of exchange flow with line j of its body taken out
MergeWithout(flow, j) ==
    merged_response_of(Response(flow.response.status_code, flow.response.headers,
                                RemoveAt(flow.response.content, j)), merge_streaming)

(* C8: an unparseable data: line between two content_block_delta lines     *)
(* contributes nothing: the merged text is the text of the stream without *)
(* that line, the texts of the two deltas next to each other and in order, *)
(* and the line never ends the extraction; the stream message_start,       *)
(* "Hel", unparseable, "lo" merges to "Hello".                             *)
C8_BadLineSkipped ==
    pc = "done" =>
        /\ \A i \in 1..Len(flows_merged) :
             LET body == BodyOfRecord(i)
                 response == ResponseOf(flows_merged[i])
             IN  /\ \A j \in BadBetweenDeltas(body) :
                      /\ IsMergedMessage(response) <=>
                           (MergeWithout(WithResponse(FlowsRead)[i], j).exc = ""
                            /\ IsMergedMessage(MergeWithout(WithResponse(FlowsRead)[i], j).val))
                      /\ IsMergedMessage(response) =>
                           /\ response = tag_merged(MergeWithout(WithResponse(FlowsRead)[i], j).val)
                           /\ response.d["content"] =
                                TextBlock(DeltaConcat(SubSeq(body, 1, j - 2))
                                          \o DeltaText(body[j - 1]) \o DeltaText(body[j + 1])
                                          \o DeltaConcat(SubSeq(body, j + 2, Len(body))))
                 /\ body = B_badline =>
                      IsMergedMessage(response) /\ response.d["content"] = TextBlock("Hello")
        /\ (Returned /\ raised # "" /\ idx < Len(CaptureFlows)) =>
             /\ raised # "JSONDecodeError"
             /\ \A j \in BadBetweenDeltas(FlowAtFault.response.content) :
                  MergeWithout(FlowAtFault, j).exc = raised

\* The stream message_start, "Hel", unparseable line, "lo" was merged to "Hello".
C8_Witness ==
    /\ ret = "True"
    /\ Len(flows_merged) = 1
    /\ BodyOfRecord(1) = B_badline
    /\ BadBetweenDeltas(BodyOfRecord(1)) = {3}
    /\ ResponseOf(files[MergedPath].doc[1]).d["content"] = TextBlock("Hello")

----------------------------------------------------------------------------
\* The line is a message_delta event that carries usage.output_tokens
CarriesOutputTokens(raw_line) ==
    /\ IsEvent(raw_line, "message_delta")
    /\ "usage" \in DOMAIN EventOf(raw_line).d
    /\ IsDict(EventOf(raw_line).d["usage"])
    /\ "output_tokens" \in DOMAIN EventOf(raw_line).d["usage"].d

OutputTokensOf(raw_line) == EventOf(raw_line).d["usage"].d["output_tokens"]

\* A message that is set and has a usage object
HasUsage(message) == Truthy(message) /\ IsDict(message) /\ "usage" \in DOMAIN message.d

\* The message_delta events of body that overwrite output_tokens: they carry
\* usage.output_tokens and come when the message is set and has a usage object
Overwriting(body) ==
    {k \in 1..Len(body) :
        CarriesOutputTokens(body[k]) /\ HasUsage(LastStartMessage(SubSeq(body, 1, k - 1)))}

Max(S) == CHOOSE x \in S : \A y \in S : y <= x

\* The place of the last message_start event of body (0 without one)
LastStartIndex(body) ==
    Max({0} \cup {k \in 1..Len(body) : IsEvent(body[k], "message_start")})

\* One step of the merge pass on line k of lines changes nothing but
\* output_tokens in the usage object of the message, and only when the message
\* is set and has a usage object.
PatchesOnlyOutputTokens(lines, k) ==
    LET before == merge_loop(lines, k - 1)
        after == merge_line(before, lines[k])
        message == before.full_response
    IN  (before.exc = "" /\ CarriesOutputTokens(lines[k])) =>
            /\ after.exc = ""
            /\ after.merged_content = before.merged_content
            /\ IF HasUsage(message)
               THEN /\ DOMAIN after.full_response.d = DOMAIN message.d
                    /\ \A key \in DOMAIN message.d \ {"usage"} :
                         after.full_response.d[key] = message.d[key]
                    /\ DOMAIN after.full_response.d["usage"].d =
                         DOMAIN message.d["usage"].d \cup {"output_tokens"}
                    /\ \A field \in DOMAIN message.d["usage"].d \ {"output_tokens"} :
                         after.full_response.d["usage"].d[field] = message.d["usage"].d[field]
                    /\ after.full_response.d["usage"].d["output_tokens"] =
                         OutputTokensOf(lines[k])
               ELSE after.full_response = message

(* C9 as claimed: the usage of the merged message holds the output_tokens  *)
(* of the last message_delta of the stream that overwrote them.            *)
C9_LastDeltaInStreamWins ==
    \A i \in 1..Len(flows_merged) :
        (IsMergedMessage(ResponseOf(flows_merged[i])) /\ Overwriting(BodyOfRecord(i)) # {}) =>
            /\ "output_tokens" \in DOMAIN ResponseOf(flows_merged[i]).d["usage"].d
            /\ ResponseOf(flows_merged[i]).d["usage"].d["output_tokens"] =
                 OutputTokensOf(BodyOfRecord(i)[Max(Overwriting(BodyOfRecord(i)))])

(* C9, amended: a message_delta event that carries usage.output_tokens     *)
(* overwrites output_tokens in the usage object of the message set by      *)
(* message_start (only when that message is set and has a usage object)    *)
(* and changes nothing else; the usage of the merged message is the usage  *)
(* of the last message_start with the output_tokens of the last such       *)
(* message_delta that follows that message_start (a later message_start    *)
(* replaces the message and its usage).                                    *)
C9_UsagePatch ==
    pc = "done" =>
        /\ \A n \in 1..idx :
             has_response(CaptureFlows[n]) =>
                 \A k \in 1..Len(split_lines(CaptureFlows[n].response.content)) :
                     PatchesOnlyOutputTokens(split_lines(CaptureFlows[n].response.content), k)
        /\ \A i \in 1..Len(flows_merged) :
             IsMergedMessage(ResponseOf(flows_merged[i])) =>
                 LET body == BodyOfRecord(i)
                     message == LastStartMessage(body)
                     usage == ResponseOf(flows_merged[i]).d["usage"]
                     later == {k \in Overwriting(body) : k > LastStartIndex(body)}
                 IN  IF ~HasUsage(message) THEN usage = EmptyDict
                     ELSE /\ DOMAIN usage.d = DOMAIN message.d["usage"].d \cup {"output_tokens"}
                          /\ \A field \in DOMAIN usage.d \ {"output_tokens"} :
                               usage.d[field] = message.d["usage"].d[field]
                          /\ usage.d["output_tokens"] =
                               (IF later # {} THEN OutputTokensOf(body[Max(later)])
                                ELSE message.d["usage"].d["output_tokens"])

\* A merged message was written for a stream in which two message_delta events
\* overwrote output_tokens with different values after the last message_start:
\* it holds the value of the second, and the input_tokens of message_start.
C9_Witness ==
    /\ ret = "True"
    /\ Len(flows_merged) = 1
    /\ IsMergedMessage(ResponseOf(flows_merged[1]))
    /\ \E k1, k2 \in Overwriting(BodyOfRecord(1)) :
         /\ LastStartIndex(BodyOfRecord(1)) < k1 /\ k1 < k2
         /\ k2 = Max(Overwriting(BodyOfRecord(1)))
         /\ OutputTokensOf(BodyOfRecord(1)[k1]) # OutputTokensOf(BodyOfRecord(1)[k2])
         /\ ResponseOf(flows_merged[1]).d["usage"].d["output_tokens"] =
              OutputTokensOf(BodyOfRecord(1)[k2])
    /\ ResponseOf(flows_merged[1]).d["usage"].d["input_tokens"] = PyInt(3)

----------------------------------------------------------------------------
\* The timestamped copies in the global directory
GlobalCopies(fs) ==
    {q \in DOMAIN fs : Len(q) = 4 /\ q[1] = GlobalDir /\ q[2] = "cli_agent_requests_"}

\* The step in which a caller handles the return of a successful extraction
SuccessfulRunEnds ==
    /\ driver.pc = "call"
    /\ pc = "done"
    /\ ret = "True"
    /\ driver'.pc # "call"

(* C10: every successful extraction run leaves one more timestamped copy   *)
(* in the global directory and changes none of the copies of earlier runs, *)
(* and the original and merged JSON files of the run hold its output.      *)
C10_DistinctGlobalCopies ==
    [][SuccessfulRunEnds =>
          /\ Cardinality(GlobalCopies(files')) = Cardinality(GlobalCopies(files)) + 1
          /\ \A q \in GlobalCopies(files) : q \in DOMAIN files' /\ files'[q] = files[q]
          /\ files'[MergedPath] = JsonFile(flows_merged)
          /\ files'[OriginalPath] = JsonFile(flows_original)]_vars

----------------------------------------------------------------------------
\* The is_streaming flag line 51 computes for the response of exchange flow
StreamingFlag(flow) == original_response_of(flow.response).d["is_streaming"]

\* The merge pass of lines 59-107 is entered for the response of exchange flow
MergeAttempted(flow) == should_merge(flow.response.content, merge_streaming)

(* C11: for every response that was read, the is_streaming flag is true     *)
(* exactly when the body text contains data:, which is exactly when the    *)
(* merge pass is attempted for it; flag and trigger never disagree.        *)
C11_FlagIsTrigger ==
    Reading =>
        \A i \in 1..Len(WithResponse(FlowsRead)) :
            LET flow == WithResponse(FlowsRead)[i]
            IN  /\ StreamingFlag(flow) = PyBool(contains_data(flow.response.content))
                /\ MergeAttempted(flow) <=> contains_data(flow.response.content)
                /\ StreamingFlag(flow) = PyBool(MergeAttempted(flow))

----------------------------------------------------------------------------
\* The line is the sentinel: data: followed by [DONE]
IsDone(raw_line) ==
    startswith_data(strip(raw_line)) /\ strip(Tail(strip(raw_line))) = <<T_done>>

DoneLines(body) == {j \in 1..Len(body) : IsDone(body[j])}

\* fullResponse and mergedContent (and the escaping exception) at the end of body
MergeStateOf(body) == merge_loop(split_lines(body), Len(split_lines(body)))

\* The text of the single content block of a reconstructed message
MergedText(response) == response.d["content"].l[1].d["text"].s

----------------------------------------------------------------------------
\* An extraction is under way, or has returned to a caller that has not yet
\* handled the result, on a capture none of whose exchanges has a response
ZeroExchangeRun ==
    /\ pc # "idle"
    /\ exists(mitm_file)
    /\ WithResponse(CaptureFlows) = <<>>

(* C13: the extraction of a capture with no exchange that has a response   *)
(* writes no file: no step of the extraction, and no step of its caller    *)
(* on the result, creates or changes the original JSON, the merged JSON or *)
(* a timestamped global copy.                                              *)
C13_ZeroExchangesWriteNothing ==
    [][ZeroExchangeRun => files' = files]_vars

\* A batch has handled the result of extracting a capture whose one exchange
\* has no response: it returned False and no output file or global copy exists.
C13_Witness ==
    /\ driver.kind = "batch"
    /\ driver.pc = "loop"
    /\ pc = "idle"
    /\ ret = "False"
    /\ raised = ""
    /\ exists(mitm_file)
    /\ CaptureFlows = <<F_unanswered>>
    /\ ~exists(OriginalPath)
    /\ ~exists(MergedPath)
    /\ GlobalCopies(files) = {}

----------------------------------------------------------------------------
\* What extract_flows_to_json returns when the extraction failed: capture not
\* found (line 30), read error (line 145), write error (line 178)
FailureResult == "False"

\* The extraction has returned from a capture that was read to its end without
\* an error and holds no exchange with a response
ZeroExchangeReturn ==
    /\ pc = "done"
    /\ exists(mitm_file)
    /\ raised = ""
    /\ WithResponse(CaptureFlows) = <<>>

\* A batch is about to return in which every capture was read without an error
BatchWithoutFailure ==
    /\ driver.kind = "batch"
    /\ driver.pc = "loop"
    /\ driver.todo = {}
    /\ glob_mitm(files) # {}
    /\ \A f \in glob_mitm(files) :
         ~files[f].corrupt /\ \A k \in 1..Len(files[f].flows) :
            ~has_response(files[f].flows[k])
            \/ merged_response_of(files[f].flows[k].response, merge_streaming).exc = ""

\* What the batch returns at lines 230-234
BatchResult == IF driver.extracted_count = 0 THEN "False" ELSE "True"

(* C14: the result for a capture with zero exchanges differs from the      *)
(* result for a failed extraction, and a batch in which no extraction      *)
(* failed does not report failure.                                         *)
C14_ZeroFlowsIsNoFailure ==
    /\ ZeroExchangeReturn => ret # FailureResult
    /\ BatchWithoutFailure => BatchResult # FailureResult

----------------------------------------------------------------------------
\* The capture at path f can be extracted: its framing is sound, it holds an
\* exchange with a response, and no merge of it ends with an exception
Extractable(f) ==
    /\ ~files[f].corrupt
    /\ WithResponse(files[f].flows) # <<>>
    /\ \A k \in 1..Len(files[f].flows) :
         ~has_response(files[f].flows[k])
         \/ merged_response_of(files[f].flows[k].response, merge_streaming).exc = ""

\* The records an extraction of flows puts in the original and merged documents
OriginalRecordsOf(flows) ==
    [i \in 1..Len(WithResponse(flows)) |-> original_record(WithResponse(flows)[i])]

MergedRecordsOf(flows) ==
    [i \in 1..Len(WithResponse(flows)) |->
        merged_record(WithResponse(flows)[i],
                      merged_response_of(WithResponse(flows)[i].response, merge_streaming).val)]

\* The step in which the batch handles the result of one extraction
BatchHandlesResult == driver.kind = "batch" /\ driver.pc = "call" /\ driver'.pc = "loop"

\* The step in which the batch ends
BatchReturns == driver.kind = "batch" /\ driver'.kind = "idle"

(* C15: a capture whose extraction fails does not stop the batch.  When    *)
(* the batch returns, every discovered capture that can be extracted has   *)
(* its original and merged JSON files, whichever captures failed and in    *)
(* whichever order the files were taken, and the batch counted each of     *)
(* them; and each successful extraction was copied to the global           *)
(* directory in the step that handled its result.                          *)
C15_BatchIsolatesFailures ==
    [][/\ BatchReturns =>
            /\ \A f \in glob_mitm(files) :
                 Extractable(f) =>
                    /\ original_file_of(f, NoPath) \in DOMAIN files
                    /\ files[original_file_of(f, NoPath)] = JsonFile(OriginalRecordsOf(files[f].flows))
                    /\ merged_file_of(f) \in DOMAIN files
                    /\ files[merged_file_of(f)] = JsonFile(MergedRecordsOf(files[f].flows))
            /\ driver.extracted_count = Cardinality({f \in glob_mitm(files) : Extractable(f)})
       /\ (BatchHandlesResult /\ Extractable(mitm_file)) =>
            /\ ret = "True"
            /\ global_json_at(clock) \in DOMAIN files'
            /\ files'[global_json_at(clock)] = JsonFile(MergedRecordsOf(CaptureFlows))
      ]_vars

\* A batch over a.mitm, which can be extracted, and b.mitm, whose framing is
\* corrupt, has ended: b failed first, then a was extracted and copied.
C15_Witness ==
    /\ driver.kind = "idle"
    /\ driver.runs = 1
    /\ driver.result = "True"
    /\ driver.extracted_count = 1
    /\ glob_mitm(files) = {MitmFile("a"), MitmFile("b")}
    /\ files[MitmFile("b")].corrupt
    /\ mitm_file = MitmFile("a")
    /\ ret = "True"
    /\ files[merged_file_of(MitmFile("a"))] = JsonFile(MergedRecordsOf(files[MitmFile("a")].flows))
    /\ GlobalCopies(files) # {}

----------------------------------------------------------------------------
\* The extraction command has exited
CommandExited == driver.kind = "idle" /\ driver.exit_code # PyNone

(* C16: the exit code of the extraction command is zero exactly when the   *)
(* extraction, or the batch, succeeded; it is non-zero when the capture    *)
(* was not found, could not be extracted or written, or every extraction   *)
(* of the batch failed.                                                    *)
C16_ExitCodeReflectsSuccess ==
    CommandExited => (driver.exit_code = PyInt(0) <=> driver.result = "True")

----------------------------------------------------------------------------
\* The path without its extension, the rest of it as it is
StripExtension(path) ==
    IF path # <<>> /\ path[Len(path)] = ".mitm" THEN SubSeq(path, 1, Len(path) - 1) ELSE path

\* The file at path holds the document of records
Holds(path, records) == path \in DOMAIN files /\ files[path] = JsonFile(records)

(* C17: after a successful extraction without an explicit output path the  *)
(* original and the merged document are in the files named by the capture  *)
(* path with only its extension stripped and _original.json, _merged.json  *)
(* appended; with an explicit output path the original document is in      *)
(* exactly that file.                                                      *)
C17_OutputPaths ==
    ret = "True" =>
        /\ output_file = NoPath =>
             /\ Holds(StripExtension(mitm_file) \o <<"_original.json">>, flows_original)
             /\ Holds(StripExtension(mitm_file) \o <<"_merged.json">>, flows_merged)
        /\ output_file # NoPath => Holds(output_file, flows_original)

----------------------------------------------------------------------------
\* path is a most recently modified one of the captures in the local directory
IsLatestCapture(path) ==
    /\ path \in glob_mitm(files)
    /\ \A r \in glob_mitm(files) : files[r].mtime <= files[path].mtime

\* The step in which a caller that discovers its captures itself (the batch
\* or the session) calls the extraction
DiscoveryExtracts ==
    /\ driver.pc # "call"
    /\ driver'.pc = "call"
    /\ driver'.kind \in {"batch", "session"}

\* The step in which the session calls the extraction
SessionExtracts == driver.kind = "idle" /\ driver'.kind = "session"

\* The step in which the session or the logger finds nothing to extract
NothingFound ==
    /\ driver.kind = "idle"
    /\ driver'.kind = "idle"
    /\ driver'.runs = driver.runs + 1

(* C18 as claimed: in auto-discovery the file that is extracted is the     *)
(* most recently modified capture of the local directory, the default      *)
(* file cli_agent_requests.mitm only when there is no other capture, and   *)
(* without any capture nothing is extracted and the caller is told so.     *)
C18_LatestCaptureOnly ==
    [][/\ DiscoveryExtracts =>
            /\ IsLatestCapture(mitm_file')
            /\ mitm_file' = DefaultCapture => glob_mitm(files) = {DefaultCapture}
       /\ (NothingFound /\ glob_mitm(files) = {}) =>
            /\ driver'.result = "None"
            /\ files' = files /\ pc' = pc
      ]_vars

(* C18, amended: the session extracts one capture, a most recently         *)
(* modified one of all the captures of the local directory, the default    *)
(* file counting as a capture like any other; without any capture it      *)
(* extracts nothing, changes no file and returns None.  The batch extracts *)
(* only captures of the local directory, takes every one of them in turn,  *)
(* and without any capture it changes no file and returns False.           *)
C18_SessionTakesLatest ==
    [][/\ SessionExtracts =>
            /\ IsLatestCapture(mitm_file')
            /\ pc' = "begin"
            /\ output_file' = GlobalOriginal
       /\ (NothingFound /\ glob_mitm(files) = {}) =>
            /\ driver'.result = "None"
            /\ files' = files /\ pc' = pc
       /\ (driver.kind = "batch" /\ driver'.pc = "call") =>
            mitm_file' \in glob_mitm(files)
       /\ (driver.kind = "idle" /\ driver'.kind = "batch") =>
            /\ glob_mitm(files) # {} => driver'.todo = glob_mitm(files)
            /\ glob_mitm(files) = {} => driver'.todo = {DefaultCapture}
       /\ (BatchReturns /\ glob_mitm(files) = {}) =>
            /\ driver'.result = "False"
            /\ files' = files
      ]_vars

\* The session extracted b.mitm, the latest of three captures, among them the
\* default file.
C18_Witness ==
    /\ driver.kind = "session"
    /\ pc = "done"
    /\ ret = "True"
    /\ mitm_file = MitmFile("b")
    /\ glob_mitm(files) = {MitmFile("a"), MitmFile("b"), DefaultCapture}
    /\ files[MitmFile("a")].mtime < files[MitmFile("b")].mtime
    /\ files[DefaultCapture].mtime < files[MitmFile("b")].mtime

----------------------------------------------------------------------------
\* The kinds of event the merge acts on
ActingKinds == {PyStr("message_start"), PyStr("content_block_delta"), PyStr("message_delta")}

\* The line is one the merge is to pass over: it does not begin with data:,
\* or it is an event of kind content_block_start or of a kind that is not known
IsPassedOver(raw_line) ==
    \/ ~startswith_data(strip(raw_line))
    \/ IsDict(EventOf(raw_line)) /\ DictGet(EventOf(raw_line), "type", PyNone) \notin ActingKinds

PassedOverLines(body) == {j \in 1..Len(body) : IsPassedOver(body[j])}

----------------------------------------------------------------------------
\* The file at path holds a complete JSON document
IsCompleteDocument(path) == files[path].kind = "json"

(* C20: at every point of an extraction each of its two output paths       *)
(* either does not exist or holds a complete JSON document, of this run or *)
(* of an earlier one; no partially written file is there to be read.       *)
C20_NoPartialOutput ==
    pc # "idle" =>
        \A path \in {OriginalPath, MergedPath} :
            path \in DOMAIN files => IsCompleteDocument(path)

----------------------------------------------------------------------------
\* The original view of the response of exchange flow: the captured status
\* code, the captured body text (None for an empty body) and the type
RawView(flow) ==
    PyDict([status_code   |-> PyInt(flow.response.status_code),
            response_body |-> (IF flow.response.content = <<>> THEN PyNone
                               ELSE PyText(flow.response.content)),
            type          |-> PyStr("original")])

(* C21: the original record of every exchange holds the captured status    *)
(* code and the body text as captured, with type "original", for a plain,  *)
(* an empty and a streaming body alike and whatever the merge pass did; so *)
(* does the original document once it is written.                          *)
C21_OriginalIsRaw ==
    /\ Reading =>
         \A i \in 1..Len(flows_original) :
             ResponseOf(flows_original[i]) = RawView(WithResponse(FlowsRead)[i])
    /\ ret = "True" =>
         /\ Len(files[OriginalPath].doc) = Len(WithResponse(CaptureFlows))
         /\ \A i \in 1..Len(WithResponse(CaptureFlows)) :
              ResponseOf(files[OriginalPath].doc[i]) = RawView(WithResponse(CaptureFlows)[i])

\* A stream whose usage the merge patched to 12 output tokens was extracted:
\* the merged record holds the rebuilt message, the original record the stream.
C21_Witness ==
    /\ ret = "True"
    /\ Len(flows_merged) = 1
    /\ BodyOfRecord(1) = B_stream
    /\ IsMergedMessage(ResponseOf(flows_merged[1]))
    /\ ResponseOf(flows_merged[1]).d["usage"].d["output_tokens"] = PyInt(12)
    /\ ResponseOf(files[OriginalPath].doc[1]).d["response_body"] = PyText(B_stream)

----------------------------------------------------------------------------
\* The merged response of exchange flow when it is merged on its own
MergedAlone(flow) == tag_merged(merged_response_of(flow.response, merge_streaming).val)

(* C22: the merge is a function of the event sequence alone.  Two records  *)
(* of one extraction whose bodies are the same stream carry the same       *)
(* merged response, text and usage included; every merged response is the  *)
(* one the merge gives for that exchange on its own, whatever exchanges    *)
(* were read before it, and its text is the text of its own delta events;  *)
(* the merged document is the one the capture alone determines.            *)
C22_MergeDeterminism ==
    /\ Reading =>
         /\ \A i, j \in 1..Len(flows_merged) :
              BodyOfRecord(i) = BodyOfRecord(j) =>
                 ResponseOf(flows_merged[i]) = ResponseOf(flows_merged[j])
         /\ \A i \in 1..Len(flows_merged) :
              /\ ResponseOf(flows_merged[i]) = MergedAlone(WithResponse(FlowsRead)[i])
              /\ IsMergedMessage(ResponseOf(flows_merged[i])) =>
                   MergedText(ResponseOf(flows_merged[i])) = DeltaConcat(BodyOfRecord(i))
    /\ ret = "True" => files[MergedPath] = JsonFile(MergedRecordsOf(CaptureFlows))

\* An extraction merged the same stream twice, one exchange after the other,
\* to the same message.
C22_Witness ==
    /\ ret = "True"
    /\ Len(flows_merged) = 2
    /\ BodyOfRecord(1) = B_stream
    /\ BodyOfRecord(2) = B_stream
    /\ MergedText(ResponseOf(flows_merged[2])) = "Hello"
    /\ ResponseOf(flows_merged[2]).d["usage"] = ResponseOf(flows_merged[1]).d["usage"]

----------------------------------------------------------------------------
\* The line is a message_delta event whose delta carries a stop reason
CarriesStopReason(raw_line) ==
    /\ IsEvent(raw_line, "message_delta")
    /\ "delta" \in DOMAIN EventOf(raw_line).d
    /\ IsDict(EventOf(raw_line).d["delta"])
    /\ "stop_reason" \in DOMAIN EventOf(raw_line).d["delta"].d

(* C23: every reconstructed message has exactly one content block, of type *)
(* text and holding a text, and the stop reason end_turn, whatever the     *)
(* events of its stream were, a message_delta with another stop reason     *)
(* among them.                                                             *)
C23_OneTextBlockEndTurn ==
    pc = "done" =>
        \A i \in 1..Len(flows_merged) :
            LET response == ResponseOf(flows_merged[i])
            IN  IsMergedMessage(response) =>
                   /\ response.d["content"].t = "list"
                   /\ Len(response.d["content"].l) = 1
                   /\ DOMAIN response.d["content"].l[1].d = {"type", "text"}
                   /\ response.d["content"].l[1].d["type"] = PyStr("text")
                   /\ response.d["content"].l[1].d["text"].t = "str"
                   /\ response.d["stop_reason"] = PyStr("end_turn")

\* A stream that ends with a message_delta of stop reason max_tokens was
\* merged to a message of stop reason end_turn with one text block.
C23_Witness ==
    /\ ret = "True"
    /\ Len(flows_merged) = 1
    /\ Len(BodyOfRecord(1)) = 3
    /\ CarriesStopReason(BodyOfRecord(1)[3])
    /\ EventOf(BodyOfRecord(1)[3]).d["delta"].d["stop_reason"] = PyStr("max_tokens")
    /\ IsMergedMessage(ResponseOf(flows_merged[1]))
    /\ ResponseOf(flows_merged[1]).d["stop_reason"] = PyStr("end_turn")
    /\ Len(ResponseOf(flows_merged[1]).d["content"].l) = 1

----------------------------------------------------------------------------
RequestBodyOf(record) == record.d["request_body"]

\* The request body of exchange flow as a record is to hold it: absent,
\* the JSON value of the text, or the text itself when it is no JSON
RequestView(flow) ==
    IF flow.request.content = <<>> THEN PyNone
    ELSE IF flow.request.content = <<R_json>> THEN PyDict([model |-> PyStr("m")])
    ELSE PyText(<<flow.request.content>>)

\* records hold, index by index, the exchanges of flows in their order
AlignedWith(records, flows) ==
    /\ Len(records) = Len(flows)
    /\ \A i \in 1..Len(flows) :
         /\ Timestamp(records[i]) = isoformat(flows[i].request.timestamp_start)
         /\ RequestBodyOf(records[i]) = RequestView(flows[i])

(* C24: the two views stay aligned.  At every index the original and the   *)
(* merged record come from the same exchange: they carry its timestamp and *)
(* its request body, the same in both, and both lists, and both written    *)
(* documents, hold the exchanges with a response in capture order.         *)
C24_ViewsAligned ==
    /\ Reading =>
         /\ AlignedWith(flows_original, WithResponse(FlowsRead))
         /\ AlignedWith(flows_merged, WithResponse(FlowsRead))
         /\ \A i \in 1..Len(flows_original) :
              /\ Timestamp(flows_original[i]) = Timestamp(flows_merged[i])
              /\ RequestBodyOf(flows_original[i]) = RequestBodyOf(flows_merged[i])
    /\ ret = "True" =>
         /\ AlignedWith(files[OriginalPath].doc, WithResponse(CaptureFlows))
         /\ AlignedWith(files[MergedPath].doc, WithResponse(CaptureFlows))

\* Two exchanges with different request bodies, the second one a merged
\* stream, were extracted into aligned documents.
C24_Witness ==
    /\ ret = "True"
    /\ Len(files[OriginalPath].doc) = 2
    /\ Len(files[MergedPath].doc) = 2
    /\ RequestBodyOf(files[OriginalPath].doc[1]) # RequestBodyOf(files[OriginalPath].doc[2])
    /\ Timestamp(files[MergedPath].doc[1]) # Timestamp(files[MergedPath].doc[2])
    /\ IsMergedMessage(ResponseOf(files[MergedPath].doc[2]))
    /\ RequestBodyOf(files[MergedPath].doc[2]) = RequestBodyOf(files[OriginalPath].doc[2])

\* The paths a call of extract_flows_to_json finds when it starts: the
\* capture, if there is one, and the capture's directory
PathsBeforeCall == {mitm_file, dirname(mitm_file)}

\* C25: whenever extract_flows_to_json returns failure, it has created no
\* file and no directory: the file system holds the paths it held before the
\* call and nothing else.
C25_FailureLeavesNoTrace ==
    (pc = "done" /\ ret = "False") => DOMAIN files \subseteq PathsBeforeCall

\* The session has come to the extraction of the logs, or is past it
AtExtraction == driver.pc \in {"extract_logs", "call", "returned"}

\* C26: on every path out of ClaudeSession.run, cleanup is performed and then
\* extract_logs: when the extraction is reached the logger has been stopped
\* and the environment is the one run was called in, and run does not return
\* without the extraction.
C26_CleanupThenExtract ==
    /\ AtExtraction => /\ driver.cleanup_done
                       /\ driver.logger_process # "running"
                       /\ driver.environ = driver.env_before
    /\ driver.pc = "returned" => driver.extract_logs_done

\* ANTHROPIC_BASE_URL names the local proxy
Redirected(environ) ==
    /\ "ANTHROPIC_BASE_URL" \in DOMAIN environ
    /\ environ["ANTHROPIC_BASE_URL"][1] = "http://localhost:"

\* C27: the environment is redirected to the local proxy, and the Claude CLI
\* launched against it, only if start_logger returned a started process.
C27_ProxyOnlyWithLogger ==
    (Redirected(driver.environ) \/ (driver.cli.launched /\ driver.cli.url[1] = "http://localhost:"))
        => driver.logger_proc = "process"

\* C28: after run returns, the environment equals the environment run was
\* called in.
C28_EnvironmentRoundTrip ==
    driver.pc = "returned" => driver.environ = driver.env_before

====
